---- MODULE Spec2Model ----
(***************************************************************************)
(* Sticky-session proxy in front of container instances (src/index.ts):   *)
(* cookie parsing, sticky shard selection, the readiness prober with       *)
(* exponential backoff, and the fetch handler that ties them together.     *)
(*                                                                         *)
(* A JavaScript string is a sequence of one-character strings.  A          *)
(* character produced by percent-decoding that is not printable ASCII is   *)
(* written "U+<code point>", as are the double quote, backslash and backquote.*)
(***************************************************************************)
EXTENDS Integers, Sequences, FiniteSets, TLC

(***************************************************************************)
(* Characters and the JavaScript library conversions the code calls.      *)
(***************************************************************************)

\* Printable ASCII, code points 32..126, in order (34, 92 and 96 by code point).
Printable ==
  <<" ", "!", "U+34", "#", "$", "%", "&", "'", "(", ")", "*", "+", ",", "-", ".", "/",
    "0", "1", "2", "3", "4", "5", "6", "7", "8", "9", ":", ";", "<", "=", ">", "?",
    "@", "A", "B", "C", "D", "E", "F", "G", "H", "I", "J", "K", "L", "M", "N", "O",
    "P", "Q", "R", "S", "T", "U", "V", "W", "X", "Y", "Z", "[", "U+92", "]", "^", "_",
    "U+96", "a", "b", "c", "d", "e", "f", "g", "h", "i", "j", "k", "l", "m", "n", "o",
    "p", "q", "r", "s", "t", "u", "v", "w", "x", "y", "z", "{", "|", "}", "~">>

CharOf(n) == IF n \in 32..126 THEN Printable[n - 31] ELSE "U+" \o ToString(n)

CodeOf(c) == 31 + CHOOSE i \in 1..Len(Printable) : Printable[i] = c

Digits == <<"0", "1", "2", "3", "4", "5", "6", "7", "8", "9">>

IsDigit(c) == \E i \in 1..10 : Digits[i] = c

DigitVal(c) == (CHOOSE i \in 1..10 : Digits[i] = c) - 1

HexUpper == <<"0", "1", "2", "3", "4", "5", "6", "7", "8", "9", "A", "B", "C", "D", "E", "F">>

HexLower == <<"0", "1", "2", "3", "4", "5", "6", "7", "8", "9", "a", "b", "c", "d", "e", "f">>

IsHex(c) == \E i \in 1..16 : HexUpper[i] = c \/ HexLower[i] = c

HexVal(c) == (CHOOSE i \in 1..16 : HexUpper[i] = c \/ HexLower[i] = c) - 1

\* s.slice(from) with a 1-based first position.
SliceFrom(s, from) == SubSeq(s, from, Len(s))

\* The byte written "%XY" at position i of s, or -1 when s has no such escape there.
EscapedByte(s, i) ==
  IF i + 2 <= Len(s) /\ s[i] = "%" /\ IsHex(s[i + 1]) /\ IsHex(s[i + 2])
  THEN 16 * HexVal(s[i + 1]) + HexVal(s[i + 2])
  ELSE -1

\* Length of the UTF-8 sequence a lead byte opens, 0 for a byte that opens none.
Utf8Len(b) ==
  IF b < 128 THEN 1
  ELSE IF b \in 194..223 THEN 2
  ELSE IF b \in 224..239 THEN 3
  ELSE IF b \in 240..244 THEN 4
  ELSE 0

IsCont(b) == b \in 128..191

\* The bounds UTF-8 puts on the second byte of a sequence opened by lead byte b.
SecondOk(b, c) ==
  /\ IsCont(c)
  /\ (b = 224 => c >= 160)
  /\ (b = 237 => c <= 159)
  /\ (b = 240 => c >= 144)
  /\ (b = 244 => c <= 143)

\* decodeURIComponent(s): [ok |-> FALSE] stands for the URIError it throws.
RECURSIVE DecodeFrom(_, _, _)
DecodeFrom(s, i, acc) ==
  IF i > Len(s) THEN [ok |-> TRUE, str |-> acc]
  ELSE IF s[i] # "%" THEN DecodeFrom(s, i + 1, Append(acc, s[i]))
  ELSE
    LET b  == EscapedByte(s, i)
        n  == IF b < 0 THEN 0 ELSE Utf8Len(b)
        b2 == IF n >= 2 THEN EscapedByte(s, i + 3) ELSE -1
        b3 == IF n >= 3 THEN EscapedByte(s, i + 6) ELSE -1
        b4 == IF n >= 4 THEN EscapedByte(s, i + 9) ELSE -1
    IN  IF n = 0 THEN [ok |-> FALSE, str |-> <<>>]
        ELSE IF n = 1 THEN DecodeFrom(s, i + 3, Append(acc, CharOf(b)))
        ELSE IF ~SecondOk(b, b2) THEN [ok |-> FALSE, str |-> <<>>]
        ELSE IF n = 2
          THEN DecodeFrom(s, i + 6, Append(acc, CharOf((b - 192) * 64 + (b2 - 128))))
        ELSE IF ~IsCont(b3) THEN [ok |-> FALSE, str |-> <<>>]
        ELSE IF n = 3
          THEN DecodeFrom(s, i + 9,
                 Append(acc, CharOf((b - 224) * 4096 + (b2 - 128) * 64 + (b3 - 128))))
        ELSE IF ~IsCont(b4) THEN [ok |-> FALSE, str |-> <<>>]
        ELSE DecodeFrom(s, i + 12,
               Append(acc, CharOf((b - 240) * 262144 + (b2 - 128) * 4096
                                   + (b3 - 128) * 64 + (b4 - 128))))

decodeURIComponent(s) == DecodeFrom(s, 1, <<>>)

Unreserved(c) ==
  \/ IsDigit(c)
  \/ c \in {"-", "_", ".", "!", "~", "*", "'", "(", ")"}
  \/ CodeOf(c) \in 65..90
  \/ CodeOf(c) \in 97..122

\* encodeURIComponent(s) for a string of printable ASCII characters.
RECURSIVE encodeURIComponent(_)
encodeURIComponent(s) ==
  IF s = <<>> THEN <<>>
  ELSE LET c == Head(s)
           e == IF Unreserved(c) THEN <<c>>
                ELSE <<"%", HexUpper[(CodeOf(c) \div 16) + 1], HexUpper[(CodeOf(c) % 16) + 1]>>
       IN  e \o encodeURIComponent(Tail(s))

\* String(n) for an integer n >= 0.
RECURSIVE StringOfNat(_)
StringOfNat(n) ==
  IF n < 10 THEN <<Digits[n + 1]>>
  ELSE Append(StringOfNat(n \div 10), Digits[(n % 10) + 1])

(***************************************************************************)
(* Numbers.  Number(str) is kept as sign and decimal digits, since the     *)
(* configured count may exceed 32 bits; count | 0 is computed on two       *)
(* 16-bit limbs.  A JavaScript value that may be undefined or null is a    *)
(* record [set |-> BOOLEAN, val |-> ...].                                  *)
(***************************************************************************)

Undefined == [set |-> FALSE, val |-> <<>>]

Str(s) == [set |-> TRUE, val |-> s]

NaN == [nan |-> TRUE, neg |-> FALSE, mag |-> <<>>]

RECURSIVE StripZeros(_)
StripZeros(ds) == IF ds # <<>> /\ Head(ds) = "0" THEN StripZeros(Tail(ds)) ELSE ds

AllDigits(s) == \A i \in 1..Len(s) : IsDigit(s[i])

\* Number(s) for s made of an optional sign, decimal digits and letters: the
\* empty string is 0, a signed or unsigned run of digits is that integer,
\* anything else is NaN.
Number(s) ==
  LET signed == s # <<>> /\ Head(s) \in {"-", "+"}
      body   == IF signed THEN Tail(s) ELSE s
  IN  IF s = <<>> THEN [nan |-> FALSE, neg |-> FALSE, mag |-> <<>>]
      ELSE IF body = <<>> \/ ~AllDigits(body) THEN NaN
      ELSE [nan |-> FALSE, neg |-> signed /\ Head(s) = "-", mag |-> StripZeros(body)]

\* mag mod 2^32 as <<high 16 bits, low 16 bits>>.
RECURSIVE Limbs(_, _)
Limbs(ds, acc) ==
  IF ds = <<>> THEN acc
  ELSE LET lo == acc[2] * 10 + DigitVal(Head(ds))
           hi == acc[1] * 10 + (lo \div 65536)
       IN  Limbs(Tail(ds), <<hi % 65536, lo % 65536>>)

\* x | 0: ToInt32 of a Number, NaN giving 0 and the rest wrapping modulo 2^32.
ToInt32(x) ==
  LET m  == Limbs(x.mag, <<0, 0>>)
      w  == IF ~x.neg \/ m = <<0, 0>> THEN m
            ELSE <<(65535 - m[1] + (IF m[2] = 0 THEN 1 ELSE 0)) % 65536,
                   (65536 - m[2]) % 65536>>
  IN  IF x.nan THEN 0
      ELSE IF w[1] >= 32768 THEN (w[1] - 65536) * 65536 + w[2]
      ELSE w[1] * 65536 + w[2]

Max(a, b) == IF a >= b THEN a ELSE b

Min(a, b) == IF a <= b THEN a ELSE b

(***************************************************************************)
(* parseCookie and chooseStickyName.                                       *)
(***************************************************************************)

\* The characters of the inputs that the regular expression's \s matches.
WhiteSpace == {" "}

RECURSIVE SkipSpace(_, _)
SkipSpace(s, i) == IF i <= Len(s) /\ s[i] \in WhiteSpace THEN SkipSpace(s, i + 1) ELSE i

\* header.split(/;\s*/)
RECURSIVE SplitFrom(_, _, _)
SplitFrom(s, i, cur) ==
  IF i > Len(s) THEN <<cur>>
  ELSE IF s[i] = ";" THEN <<cur>> \o SplitFrom(s, SkipSpace(s, i + 1), <<>>)
  ELSE SplitFrom(s, i + 1, Append(cur, s[i]))

SplitCookie(s) == SplitFrom(s, 1, <<>>)

\* kv.indexOf("="), 0-based, -1 when kv has no "=".
IndexOfEq(kv) ==
  IF \E i \in 1..Len(kv) : kv[i] = "="
  THEN (CHOOSE i \in 1..Len(kv) : kv[i] = "=" /\ \A j \in 1..(i - 1) : kv[j] # "=") - 1
  ELSE -1

ProtoKey == <<"_", "_", "p", "r", "o", "t", "o", "_", "_">>

\* out[k] = v on a plain object: an own property, except that a string assigned
\* to __proto__ goes to the inherited setter, which ignores it.
SetProp(out, k, v) ==
  IF k = ProtoKey THEN out
  ELSE [x \in DOMAIN out \cup {k} |-> IF x = k THEN v ELSE out[x]]

\* The callback of forEach on one segment; ok = FALSE is a thrown URIError.
ParseSegment(res, kv) ==
  LET i == IndexOfEq(kv)
      k == decodeURIComponent(SubSeq(kv, 1, i))
      v == decodeURIComponent(SliceFrom(kv, i + 2))
  IN  IF ~res.ok THEN res
      ELSE IF i > 0
        THEN IF k.ok /\ v.ok
               THEN [ok |-> TRUE, out |-> SetProp(res.out, k.str, v.str)]
               ELSE [ok |-> FALSE, out |-> res.out]
      ELSE res

RECURSIVE ParseSegments(_, _)
ParseSegments(res, segs) ==
  IF segs = <<>> THEN res
  ELSE ParseSegments(ParseSegment(res, Head(segs)), Tail(segs))

EmptyRecord == [x \in {} |-> <<>>]

\* parseCookie(header); header is Undefined for null.
parseCookie(header) ==
  IF ~header.set \/ header.val = <<>> THEN [ok |-> TRUE, out |-> EmptyRecord]
  ELSE ParseSegments([ok |-> TRUE, out |-> EmptyRecord], SplitCookie(header.val))

key == <<"S", "Z", "Z", "D", "_", "C", "O", "N", "T", "A", "I", "N", "E", "R">>

ClientPrefix == <<"c", "l", "i", "e", "n", "t", "-">>

CookieAttrs ==
  <<";", " ", "P", "a", "t", "h", "=", "/",
    ";", " ", "M", "a", "x", "-", "A", "g", "e", "=", "8", "6", "4", "0", "0",
    ";", " ", "H", "t", "t", "p", "O", "n", "l", "y",
    ";", " ", "S", "a", "m", "e", "S", "i", "t", "e", "=", "L", "a", "x">>

\* cookies[key]: Undefined when the object has no such property.
Lookup(out, k) == IF k \in DOMAIN out THEN Str(out[k]) ELSE Undefined

\* !v for a value that is a string or undefined.
Falsy(v) == ~v.set \/ v.val = <<>>

\* n of line 45 for a count (a Number).
ShardSpan(count) == Max(1, ToInt32(count))

\* chooseStickyName with the presented value checked against [0, n): a value
\* outside it is replaced by a fresh draw.
chooseStickyNameValidating(header, count, draw) ==
  LET cookies == parseCookie(header)
      shard   == Lookup(cookies.out, key)
      fresh   == StringOfNat(draw)
      valid   == \E i \in 0..(ShardSpan(count) - 1) : shard.val = StringOfNat(i)
  IN  IF ~cookies.ok THEN [ok |-> FALSE, name |-> <<>>, setCookie |-> Undefined]
      ELSE IF Falsy(shard) \/ ~valid
        THEN [ok |-> TRUE, name |-> ClientPrefix \o fresh,
              setCookie |-> Str(key \o <<"=">> \o encodeURIComponent(fresh) \o CookieAttrs)]
      ELSE [ok |-> TRUE, name |-> ClientPrefix \o shard.val, setCookie |-> Undefined]

\* chooseStickyName that renews the cookie of a client that presented it.
chooseStickyNameRefreshing(header, count, draw) ==
  LET cookies == parseCookie(header)
      shard   == Lookup(cookies.out, key)
      fresh   == StringOfNat(draw)
  IN  IF ~cookies.ok THEN [ok |-> FALSE, name |-> <<>>, setCookie |-> Undefined]
      ELSE IF Falsy(shard)
        THEN [ok |-> TRUE, name |-> ClientPrefix \o fresh,
              setCookie |-> Str(key \o <<"=">> \o encodeURIComponent(fresh) \o CookieAttrs)]
      ELSE [ok |-> TRUE, name |-> ClientPrefix \o shard.val,
            setCookie |-> Str(key \o <<"=">> \o encodeURIComponent(shard.val) \o CookieAttrs)]

\* chooseStickyName(req, count) on the request's cookie header, with draw the
\* value of Math.floor(Math.random() * n); ok = FALSE is the URIError
\* that parseCookie lets through.
chooseStickyName(header, count, draw) ==
  LET cookies == parseCookie(header)
      shard   == Lookup(cookies.out, key)
      fresh   == StringOfNat(draw)
  IN  IF ~cookies.ok THEN [ok |-> FALSE, name |-> <<>>, setCookie |-> Undefined]
      ELSE IF Falsy(shard)
        THEN [ok |-> TRUE, name |-> ClientPrefix \o fresh,
              setCookie |-> Str(key \o <<"=">> \o encodeURIComponent(fresh) \o CookieAttrs)]
      ELSE [ok |-> TRUE, name |-> ClientPrefix \o shard.val, setCookie |-> Undefined]

\* Number(env.INSTANCE_COUNT ?? "1")
ConfiguredCount(instanceCount) ==
  Number(IF instanceCount.set THEN instanceCount.val ELSE <<"1">>)

(***************************************************************************)
(* Responses.  A body is a sequence of text chunks; headers are a list of  *)
(* <<lower-cased name, value>> pairs, as a Headers object keeps them.      *)
(***************************************************************************)

NoResponse == [status |-> 0, statusText |-> "", body |-> <<>>, headers |-> <<>>]

\* String(lastErr) for lastErr = `status ${r.status}` or a caught Error.
StringOfErr(e) ==
  IF e.kind = "status" THEN <<"status ", ToString(e.status)>>
  ELSE <<"Error: ", e.message>>

NoErr == [kind |-> "none", status |-> 0, message |-> ""]

StatusErr(st) == [kind |-> "status", status |-> st, message |-> ""]

ThrownErr(msg) == [kind |-> "error", status |-> 0, message |-> msg]

\* String(e) of the Error that ensureContainerReady throws after its loop.
TimeoutText(timeoutMs, lastErr) ==
  <<"Error: ", "Container not ready within ", ToString(timeoutMs), "ms">>
    \o (IF lastErr.kind # "none" THEN <<", last error: ">> \o StringOfErr(lastErr) ELSE <<>>)

\* The Response the catch block of fetch returns; text is String(e).
WarmingUp(text) ==
  [status |-> 503, statusText |-> "",
   body |-> <<"Service warming up: ">> \o text,
   headers |-> << <<"cache-control", <<"n", "o", "-", "s", "t", "o", "r", "e">> >>,
                  <<"x-container-state", <<"s", "t", "a", "r", "t", "i", "n", "g">> >> >>]

\* WithCookie with headers.set in place of headers.append: the instance's own
\* Set-Cookie headers are replaced.
WithCookieSet(resp, cookie) ==
  [status |-> resp.status, statusText |-> "",
   body |-> resp.body,
   headers |-> Append(SelectSeq(resp.headers, LAMBDA h : h[1] # "set-cookie"),
                      <<"set-cookie", cookie>>)]

\* headers.append("Set-Cookie", setCookie) on a copy of resp.headers, in a new
\* Response that takes the body and the status of resp.
WithCookie(resp, cookie) ==
  [status |-> resp.status, statusText |-> "",
   body |-> resp.body,
   headers |-> Append(resp.headers, <<"set-cookie", cookie>>)]

\* What fetch returns once the forward has answered resp.
Proxied(resp, setCookie) == IF setCookie.set THEN WithCookie(resp, setCookie.val) ELSE resp

(***************************************************************************)
(* The readiness loop of ensureContainerReady.                             *)
(***************************************************************************)

timeoutMs == 180000

InitialWait == 300

MaxWait == 5000

\* Listening with the bound included.
ListeningInclusive(status) == status <= 500

\* r.status < 500
Listening(status) == status < 500

\* NextWait without the cap.
NextWaitUncapped(w) == w * 2

\* wait = Math.min(wait * 2, 5_000)
NextWait(w) == Min(w * 2, MaxWait)

\* InTime with the default of the timeoutMs parameter, 120_000, as were the
\* argument of the call left out.
InTimeDefault(clock, start) == clock - start < 120000

\* InTime with the bound included.
InTimeInclusive(clock, start) == clock - start <= timeoutMs

\* Date.now() - startT < timeoutMs
InTime(clock, start) == clock - start < timeoutMs

(***************************************************************************)
(* The inputs: cookie headers, INSTANCE_COUNT settings, what the instance  *)
(* answers and how long it takes.                                          *)
(***************************************************************************)

SegSticky == key \o <<"=", "3">>

SegStickyEmpty == key \o <<"=">>

\* The cookie with its name and its value "1" percent-escaped.
SegStickyEscaped ==
  <<"S", "Z", "Z", "D", "%", "5", "F", "C", "O", "N", "T", "A", "I", "N", "E", "R",
    "=", "%", "3", "1">>

SegOther == <<"a", "=", "b">>

SegNoEq == <<"f", "l", "a", "g">>

SegEqFirst == <<"=", "x">>

SegBadEscape == <<"b", "=", "%", "z">>

SegBadUtf8 == <<"%", "C", "0", "%", "8", "0", "=", "c">>

Segments ==
  {SegSticky, SegStickyEmpty, SegStickyEscaped, SegOther, SegNoEq, SegEqFirst,
   SegBadEscape, SegBadUtf8}

Separators == {<<";">>, <<";", " ">>}

\* Cookie headers of one or two segments, the empty header and the absent one.
CookieHeaders ==
  {Undefined, Str(<<>>)}
    \cup {Str(a) : a \in Segments}
    \cup {Str(a \o sep \o b) : a \in Segments, sep \in Separators, b \in Segments}

\* What a client holding the cookie pair jar may send with it.
JarHeaders(jar) ==
  IF jar = <<>> THEN {}
  ELSE {Str(jar),
        Str(SegOther \o <<";", " ">> \o jar),
        Str(jar \o <<";">> \o SegNoEq),
        Str(jar \o <<";", " ">> \o SegBadEscape)}

\* The cookie headers of the requests the dispatcher is run on.
RequestHeaders ==
  {Undefined, Str(<<>>)}
    \cup {Str(a) : a \in Segments}
    \cup {Str(SegSticky \o <<";", " ">> \o SegStickyEmpty),
          Str(SegOther \o <<";">> \o SegSticky)}

\* Values of env.INSTANCE_COUNT.
InstanceCounts ==
  {Undefined, Str(<<>>), Str(<<"a", "b", "c">>),
   Str(<<"0">>), Str(<<"1">>), Str(<<"2">>), Str(<<"-", "1">>),
   Str(<<"-", "4", "2", "9", "4", "9", "6", "7", "2", "9", "4">>),
   Str(<<"4", "2", "9", "4", "9", "6", "7", "2", "9", "8">>)}

ProbeStatuses == {200, 499, 500}

ProbeErrors == {"Network connection lost."}

StartErrors == {"Container failed to start."}

ForwardErrors == {"Network connection lost."}

PlainHeader == <<"content-type", <<"t", "e", "x", "t">> >>

OwnCookieHeader == <<"set-cookie", <<"s", "i", "d", "=", "1">> >>

BackendResponses ==
  {[status |-> 200, statusText |-> "OK", body |-> <<"page">>,
    headers |-> <<PlainHeader>>],
   [status |-> 200, statusText |-> "", body |-> <<>>,
    headers |-> <<OwnCookieHeader, PlainHeader>>],
   [status |-> 404, statusText |-> "Not Found", body |-> <<"no such page">>,
    headers |-> <<PlainHeader, OwnCookieHeader>>],
   [status |-> 500, statusText |-> "", body |-> <<"oops">>, headers |-> <<>>]}

\* How long an awaited call can take, in ms.
StartSlow == 180000

ProbeSlow == 100000

StartDurations == {0, StartSlow}

ProbeDurations == {0, ProbeSlow}

ForwardDurations == {0}

Tasks == {"t1", "t2"}

(***************************************************************************)
(* State.  Each task is one invocation of fetch; the variables named as in *)
(* the source are its locals, pc is the await it is suspended at.          *)
(***************************************************************************)

VARIABLES
  now,        \* Date.now()
  pc,         \* "idle", "start", "probe", "sleep", "forward", "done", "failed"
  request,    \* the cookie header of the request
  name,       \* the instance name the stub is for
  setCookie,  \* the Set-Cookie value, Undefined when the cookie was presented
  startT,
  wait,
  lastErr,
  wakeAt,     \* when the timer of sleep(wait) is due
  resp,       \* the instance's answer to the forwarded request
  result,     \* what fetch resolved to; [thrown |-> TRUE] when it rejected
  prober,     \* "Idle", "Starting", "Probing", "Ready", "TimedOut", "StartFailed"
  starts,     \* start signals issued by the call
  probes,     \* probes issued by the call
  slept,      \* the delays of the completed sleeps, in order
  readyT,     \* Date.now() when ensureContainerReady returned
  forwards,   \* forwards of the original request issued
  lastProbe,  \* the outcome of the most recent probe that has returned
  failures,   \* probes that returned a status >= 500 or threw
  sticky,     \* the request presents the cookie the client was given
  started,    \* how stub.start() ended: "none", "returned", "threw"
  probingT,   \* Date.now() when stub.start() returned
  jar,        \* the cookie pair the client stores, <<>> when it has none
  assigned,   \* the instance name of the request that was answered with it
  warmed,     \* the instance a cookie-less request was last answered 503 for
  call,       \* a direct call of parseCookie or of the shard selection
  ret         \* its outcome

locals == <<request, name, setCookie, startT, wait, lastErr, wakeAt, resp, result>>

history == <<prober, starts, probes, slept, readyT, forwards, lastProbe, failures, sticky,
             started, probingT>>

client == <<jar, assigned, warmed>>

direct == <<call, ret>>

vars == <<now, pc, locals, history, client, direct>>

NoResult == [thrown |-> FALSE, response |-> NoResponse]

Returned(r) == [thrown |-> FALSE, response |-> r]

Thrown == [thrown |-> TRUE, response |-> NoResponse]

NoCall == [fn |-> "none", header |-> Undefined, instanceCount |-> Undefined]

NoRet == [done |-> FALSE, ok |-> FALSE, out |-> EmptyRecord, name |-> <<>>,
          setCookie |-> Undefined, draw |-> 0]

TaskInit ==
  /\ now = 0
  /\ pc = [t \in Tasks |-> "idle"]
  /\ request = [t \in Tasks |-> Undefined]
  /\ name = [t \in Tasks |-> <<>>]
  /\ setCookie = [t \in Tasks |-> Undefined]
  /\ startT = [t \in Tasks |-> 0]
  /\ wait = [t \in Tasks |-> 0]
  /\ lastErr = [t \in Tasks |-> NoErr]
  /\ wakeAt = [t \in Tasks |-> 0]
  /\ resp = [t \in Tasks |-> NoResponse]
  /\ result = [t \in Tasks |-> NoResult]
  /\ prober = [t \in Tasks |-> "Idle"]
  /\ starts = [t \in Tasks |-> 0]
  /\ probes = [t \in Tasks |-> 0]
  /\ slept = [t \in Tasks |-> <<>>]
  /\ readyT = [t \in Tasks |-> 0]
  /\ forwards = [t \in Tasks |-> 0]
  /\ lastProbe = [t \in Tasks |-> NoErr]
  /\ failures = [t \in Tasks |-> 0]
  /\ sticky = [t \in Tasks |-> FALSE]
  /\ started = [t \in Tasks |-> "none"]
  /\ probingT = [t \in Tasks |-> 0]
  /\ jar = <<>>
  /\ assigned = <<>>
  /\ warmed = <<>>

Init ==
  /\ TaskInit
  /\ call = NoCall
  /\ ret = NoRet

(***************************************************************************)
(* fetch and ensureContainerReady, one action per resumption: the code     *)
(* from one await to the next runs without interleaving.                   *)
(***************************************************************************)

\* LoopTop with the timeout swallowed: the request is forwarded all the same.
LoopTopForwarding(t, clock, err) ==
  IF InTime(clock, startT[t])
  THEN /\ pc' = [pc EXCEPT ![t] = "probe"]
       /\ probes' = [probes EXCEPT ![t] = @ + 1]
       /\ prober' = [prober EXCEPT ![t] = "Probing"]
       /\ result' = result
  ELSE /\ pc' = [pc EXCEPT ![t] = "forward"]
       /\ probes' = probes
       /\ prober' = [prober EXCEPT ![t] = "TimedOut"]
       /\ result' = result

\* LoopTop with the Set-Cookie of a newly drawn shard appended to the 503.
LoopTopSticky(t, clock, err) ==
  IF InTime(clock, startT[t])
  THEN /\ pc' = [pc EXCEPT ![t] = "probe"]
       /\ probes' = [probes EXCEPT ![t] = @ + 1]
       /\ prober' = [prober EXCEPT ![t] = "Probing"]
       /\ result' = result
  ELSE /\ pc' = [pc EXCEPT ![t] = "done"]
       /\ probes' = probes
       /\ prober' = [prober EXCEPT ![t] = "TimedOut"]
       /\ result' = [result EXCEPT ![t] =
                       Returned(Proxied(WarmingUp(TimeoutText(timeoutMs, err)),
                                        setCookie[t]))]

\* The top of the while loop at time clock: the next probe is issued, or the
\* loop is left, the Error thrown and caught by fetch, which answers 503.
LoopTop(t, clock, err) ==
  IF InTime(clock, startT[t])
  THEN /\ pc' = [pc EXCEPT ![t] = "probe"]
       /\ probes' = [probes EXCEPT ![t] = @ + 1]
       /\ prober' = [prober EXCEPT ![t] = "Probing"]
       /\ result' = result
  ELSE /\ pc' = [pc EXCEPT ![t] = "done"]
       /\ probes' = probes
       /\ prober' = [prober EXCEPT ![t] = "TimedOut"]
       /\ result' = [result EXCEPT ![t] = Returned(WarmingUp(TimeoutText(timeoutMs, err)))]

\* The values Math.floor(Math.random() * n) can take under a setting.
Draws(instanceCount) == 0..(ShardSpan(ConfiguredCount(instanceCount)) - 1)

\* fetch is called: the count is read, the sticky name chosen, the stub
\* obtained, ensureContainerReady entered and stub.start() issued.
Fetch(t, header, instanceCount, draw, presents) ==
  LET count  == ConfiguredCount(instanceCount)
      choice == chooseStickyName(header, count, draw)
  IN  /\ pc[t] = "idle"
      /\ draw \in Draws(instanceCount)
      /\ request' = [request EXCEPT ![t] = header]
      /\ sticky' = [sticky EXCEPT ![t] = presents]
      /\ IF choice.ok
         THEN /\ pc' = [pc EXCEPT ![t] = "start"]
              /\ name' = [name EXCEPT ![t] = choice.name]
              /\ setCookie' = [setCookie EXCEPT ![t] = choice.setCookie]
              /\ startT' = [startT EXCEPT ![t] = now]
              /\ prober' = [prober EXCEPT ![t] = "Starting"]
              /\ starts' = [starts EXCEPT ![t] = @ + 1]
              /\ result' = result
         ELSE /\ pc' = [pc EXCEPT ![t] = "failed"]
              /\ result' = [result EXCEPT ![t] = Thrown]
              /\ UNCHANGED <<name, setCookie, startT, prober, starts>>
      /\ UNCHANGED <<now, wait, lastErr, wakeAt, resp, probes, slept, readyT, forwards,
                     lastProbe, failures, started, probingT, client, direct>>

\* A request of a client that holds no cookie of ours, or ignores it.
FetchAny(t) ==
  \E header \in RequestHeaders, instanceCount \in InstanceCounts :
    \E draw \in Draws(instanceCount) : Fetch(t, header, instanceCount, draw, FALSE)

\* A request of the client that presents the cookie pair it was given.
FetchSticky(t) ==
  \E header \in JarHeaders(jar), instanceCount \in InstanceCounts :
    \E draw \in Draws(instanceCount) : Fetch(t, header, instanceCount, draw, TRUE)

\* StartReturns with startT taken after the await of stub.start().
StartReturnsRestarting(t, d) ==
  /\ pc[t] = "start"
  /\ now' = now + d
  /\ startT' = [startT EXCEPT ![t] = now']
  /\ wait' = [wait EXCEPT ![t] = InitialWait]
  /\ lastErr' = [lastErr EXCEPT ![t] = NoErr]
  /\ started' = [started EXCEPT ![t] = "returned"]
  /\ probingT' = [probingT EXCEPT ![t] = now']
  /\ pc' = [pc EXCEPT ![t] = "probe"]
  /\ probes' = [probes EXCEPT ![t] = @ + 1]
  /\ prober' = [prober EXCEPT ![t] = "Probing"]
  /\ UNCHANGED <<request, name, setCookie, wakeAt, resp, result, starts, slept, readyT,
                 forwards, lastProbe, failures, sticky, client, direct>>

\* await stub.start() returns after d ms: the loop is entered.
StartReturns(t, d) ==
  /\ pc[t] = "start"
  /\ now' = now + d
  /\ wait' = [wait EXCEPT ![t] = InitialWait]
  /\ lastErr' = [lastErr EXCEPT ![t] = NoErr]
  /\ started' = [started EXCEPT ![t] = "returned"]
  /\ probingT' = [probingT EXCEPT ![t] = now']
  /\ LoopTop(t, now', NoErr)
  /\ UNCHANGED <<request, name, setCookie, startT, wakeAt, resp, starts, slept, readyT,
                 forwards, lastProbe, failures, sticky, client, direct>>

\* StartThrows with the error of stub.start() swallowed: the loop is entered
\* as after a start that returned.
StartThrowsLenient(t, e, d) ==
  /\ pc[t] = "start"
  /\ now' = now + d
  /\ wait' = [wait EXCEPT ![t] = InitialWait]
  /\ lastErr' = [lastErr EXCEPT ![t] = NoErr]
  /\ started' = [started EXCEPT ![t] = "threw"]
  /\ probingT' = [probingT EXCEPT ![t] = now']
  /\ LoopTop(t, now', NoErr)
  /\ UNCHANGED <<request, name, setCookie, startT, wakeAt, resp, starts, slept, readyT,
                 forwards, lastProbe, failures, sticky, client, direct>>

\* await stub.start() throws e after d ms: ensureContainerReady rejects with
\* e and the catch block of fetch answers 503.
StartThrows(t, e, d) ==
  /\ pc[t] = "start"
  /\ now' = now + d
  /\ pc' = [pc EXCEPT ![t] = "done"]
  /\ prober' = [prober EXCEPT ![t] = "StartFailed"]
  /\ result' = [result EXCEPT ![t] = Returned(WarmingUp(StringOfErr(ThrownErr(e))))]
  /\ started' = [started EXCEPT ![t] = "threw"]
  /\ UNCHANGED <<request, name, setCookie, startT, wait, lastErr, wakeAt, resp, starts,
                 probes, slept, readyT, forwards, lastProbe, failures, sticky, probingT,
                 client, direct>>

\* ProbeAnswers with the deadline enforced on the probe: an answer that
\* arrives after the deadline is dropped and the check times out.
ProbeAnswersInTime(t, st, d) ==
  /\ pc[t] = "probe"
  /\ now' = now + d
  /\ IF ~InTime(now', startT[t])
     THEN /\ pc' = [pc EXCEPT ![t] = "done"]
          /\ prober' = [prober EXCEPT ![t] = "TimedOut"]
          /\ result' = [result EXCEPT ![t] =
                          Returned(WarmingUp(TimeoutText(timeoutMs, lastErr[t])))]
          /\ UNCHANGED <<wait, lastErr, wakeAt, readyT, forwards, failures>>
     ELSE /\ result' = result
          /\ IF Listening(st)
             THEN /\ pc' = [pc EXCEPT ![t] = "forward"]
                  /\ prober' = [prober EXCEPT ![t] = "Ready"]
                  /\ readyT' = [readyT EXCEPT ![t] = now']
                  /\ forwards' = [forwards EXCEPT ![t] = @ + 1]
                  /\ wait' = [wait EXCEPT ![t] = 0]
                  /\ lastErr' = [lastErr EXCEPT ![t] = NoErr]
                  /\ UNCHANGED <<wakeAt, failures>>
             ELSE /\ pc' = [pc EXCEPT ![t] = "sleep"]
                  /\ lastErr' = [lastErr EXCEPT ![t] = StatusErr(st)]
                  /\ wakeAt' = [wakeAt EXCEPT ![t] = now' + wait[t]]
                  /\ failures' = [failures EXCEPT ![t] = @ + 1]
                  /\ UNCHANGED <<wait, prober, readyT, forwards>>
  /\ lastProbe' = [lastProbe EXCEPT ![t] = StatusErr(st)]
  /\ UNCHANGED <<request, name, setCookie, startT, resp, starts, probes,
                 slept, sticky, started, probingT, client, direct>>

\* The probe is answered with status st after d ms: ensureContainerReady
\* returns (its locals wait and lastErr are gone) and the original request is
\* forwarded, or the status is kept as lastErr and sleep(wait) is entered.
ProbeAnswers(t, st, d) ==
  /\ pc[t] = "probe"
  /\ now' = now + d
  /\ IF Listening(st)
     THEN /\ pc' = [pc EXCEPT ![t] = "forward"]
          /\ prober' = [prober EXCEPT ![t] = "Ready"]
          /\ readyT' = [readyT EXCEPT ![t] = now']
          /\ forwards' = [forwards EXCEPT ![t] = @ + 1]
          /\ wait' = [wait EXCEPT ![t] = 0]
          /\ lastErr' = [lastErr EXCEPT ![t] = NoErr]
          /\ UNCHANGED <<wakeAt, failures>>
     ELSE /\ pc' = [pc EXCEPT ![t] = "sleep"]
          /\ lastErr' = [lastErr EXCEPT ![t] = StatusErr(st)]
          /\ wakeAt' = [wakeAt EXCEPT ![t] = now' + wait[t]]
          /\ failures' = [failures EXCEPT ![t] = @ + 1]
          /\ UNCHANGED <<wait, prober, readyT, forwards>>
  /\ lastProbe' = [lastProbe EXCEPT ![t] = StatusErr(st)]
  /\ UNCHANGED <<request, name, setCookie, startT, resp, result, starts, probes,
                 slept, sticky, started, probingT, client, direct>>

\* ProbeThrows with the next probe issued at once, without sleep(wait).
ProbeThrowsRetry(t, e, d) ==
  /\ pc[t] = "probe"
  /\ now' = now + d
  /\ lastErr' = [lastErr EXCEPT ![t] = ThrownErr(e)]
  /\ lastProbe' = [lastProbe EXCEPT ![t] = ThrownErr(e)]
  /\ failures' = [failures EXCEPT ![t] = @ + 1]
  /\ LoopTop(t, now', ThrownErr(e))
  /\ UNCHANGED <<request, name, setCookie, startT, wait, wakeAt, resp, starts, slept,
                 readyT, forwards, sticky, started, probingT, client, direct>>

\* ProbeThrows with the first failure kept: lastErr is set only when empty.
ProbeThrowsKeepFirst(t, e, d) ==
  /\ pc[t] = "probe"
  /\ now' = now + d
  /\ pc' = [pc EXCEPT ![t] = "sleep"]
  /\ lastErr' = [lastErr EXCEPT ![t] = IF @ = NoErr THEN ThrownErr(e) ELSE @]
  /\ wakeAt' = [wakeAt EXCEPT ![t] = now' + wait[t]]
  /\ lastProbe' = [lastProbe EXCEPT ![t] = ThrownErr(e)]
  /\ failures' = [failures EXCEPT ![t] = @ + 1]
  /\ UNCHANGED <<request, name, setCookie, startT, wait, resp, result, prober, starts,
                 probes, slept, readyT, forwards, sticky, started, probingT, client,
                 direct>>

\* The probe throws e after d ms: e is kept as lastErr and sleep(wait) entered.
ProbeThrows(t, e, d) ==
  /\ pc[t] = "probe"
  /\ now' = now + d
  /\ pc' = [pc EXCEPT ![t] = "sleep"]
  /\ lastErr' = [lastErr EXCEPT ![t] = ThrownErr(e)]
  /\ wakeAt' = [wakeAt EXCEPT ![t] = now' + wait[t]]
  /\ lastProbe' = [lastProbe EXCEPT ![t] = ThrownErr(e)]
  /\ failures' = [failures EXCEPT ![t] = @ + 1]
  /\ UNCHANGED <<request, name, setCookie, startT, wait, resp, result, prober, starts,
                 probes, slept, readyT, forwards, sticky, started, probingT, client,
                 direct>>

\* SleepReturns with wait a variable of the module, not of the call: the
\* doubling reaches every readiness check in progress.
SleepReturnsShared(t) ==
  /\ pc[t] = "sleep"
  /\ now' = Max(now, wakeAt[t])
  /\ slept' = [slept EXCEPT ![t] = Append(@, wait[t])]
  /\ wait' = [u \in Tasks |->
               IF u = t \/ pc[u] \in {"probe", "sleep"} THEN NextWait(wait[t]) ELSE wait[u]]
  /\ LoopTop(t, now', lastErr[t])
  /\ UNCHANGED <<request, name, setCookie, startT, lastErr, wakeAt, resp, starts, readyT,
                 forwards, lastProbe, failures, sticky, started, probingT, client,
                 direct>>

\* SleepReturns with a promise that is never resolved: the timer callback
\* does not call its resolver.
SleepNeverResolves(t) ==
  /\ pc[t] = "sleep"
  /\ FALSE
  /\ UNCHANGED vars

\* The timer of sleep(wait) fires: wait is doubled up to the cap and the loop
\* condition is evaluated again.
SleepReturns(t) ==
  /\ pc[t] = "sleep"
  /\ now' = Max(now, wakeAt[t])
  /\ slept' = [slept EXCEPT ![t] = Append(@, wait[t])]
  /\ wait' = [wait EXCEPT ![t] = NextWait(@)]
  /\ LoopTop(t, now', lastErr[t])
  /\ UNCHANGED <<request, name, setCookie, startT, lastErr, wakeAt, resp, starts, readyT,
                 forwards, lastProbe, failures, sticky, started, probingT, client,
                 direct>>

\* The forward is answered with r after d ms: fetch returns it, with the
\* cookie appended when one was set.
ForwardAnswers(t, r, d) ==
  /\ pc[t] = "forward"
  /\ now' = now + d
  /\ pc' = [pc EXCEPT ![t] = "done"]
  /\ resp' = [resp EXCEPT ![t] = r]
  /\ result' = [result EXCEPT ![t] = Returned(Proxied(r, setCookie[t]))]
  /\ UNCHANGED <<request, name, setCookie, startT, wait, lastErr, wakeAt, history,
                 client, direct>>

\* ForwardThrows with the forward inside the try block of fetch: its error
\* is answered 503 as a failed readiness check is.
ForwardThrowsWarming(t, e, d) ==
  /\ pc[t] = "forward"
  /\ now' = now + d
  /\ pc' = [pc EXCEPT ![t] = "done"]
  /\ result' = [result EXCEPT ![t] = Returned(WarmingUp(StringOfErr(ThrownErr(e))))]
  /\ UNCHANGED <<request, name, setCookie, startT, wait, lastErr, wakeAt, resp, history,
                 client, direct>>

\* The forward throws after d ms: fetch rejects.
ForwardThrows(t, e, d) ==
  /\ pc[t] = "forward"
  /\ now' = now + d
  /\ pc' = [pc EXCEPT ![t] = "failed"]
  /\ result' = [result EXCEPT ![t] = Thrown]
  /\ UNCHANGED <<request, name, setCookie, startT, wait, lastErr, wakeAt, resp, history,
                 client, direct>>

(***************************************************************************)
(* The client: it keeps the cookie pair of a Set-Cookie header named as    *)
(* the stickiness cookie and may present it on its next requests.          *)
(***************************************************************************)

\* What precedes the first occurrence of c in s, all of s when it has none.
RECURSIVE Before(_, _)
Before(s, c) ==
  IF s = <<>> \/ Head(s) = c THEN <<>> ELSE <<Head(s)>> \o Before(Tail(s), c)

\* The name=value pair of a Set-Cookie value.
CookiePair(v) == Before(v, ";")

\* The jar after the client has read the headers hs, in order.
RECURSIVE Stored(_, _)
Stored(j, hs) ==
  IF hs = <<>> THEN j
  ELSE LET h == Head(hs)
           p == CookiePair(h[2])
       IN  Stored(IF h[1] = "set-cookie" /\ Before(p, "=") = key THEN p ELSE j, Tail(hs))

\* The client receives the outcome of fetch; the task is free for the next
\* request.  Only differences of Date.now() are read, so the clock is put
\* back to 0 when no call is in flight.
Receive(t) ==
  LET j == IF result[t].thrown THEN jar ELSE Stored(jar, result[t].response.headers)
  IN  /\ pc[t] \in {"done", "failed"}
      /\ jar' = j
      /\ assigned' = IF j # jar THEN name[t] ELSE assigned
      /\ now' = IF \A u \in Tasks \ {t} : pc[u] = "idle" THEN 0 ELSE now
      /\ pc' = [pc EXCEPT ![t] = "idle"]
      /\ request' = [request EXCEPT ![t] = Undefined]
      /\ name' = [name EXCEPT ![t] = <<>>]
      /\ setCookie' = [setCookie EXCEPT ![t] = Undefined]
      /\ startT' = [startT EXCEPT ![t] = 0]
      /\ wait' = [wait EXCEPT ![t] = 0]
      /\ lastErr' = [lastErr EXCEPT ![t] = NoErr]
      /\ wakeAt' = [wakeAt EXCEPT ![t] = 0]
      /\ resp' = [resp EXCEPT ![t] = NoResponse]
      /\ result' = [result EXCEPT ![t] = NoResult]
      /\ prober' = [prober EXCEPT ![t] = "Idle"]
      /\ starts' = [starts EXCEPT ![t] = 0]
      /\ probes' = [probes EXCEPT ![t] = 0]
      /\ slept' = [slept EXCEPT ![t] = <<>>]
      /\ readyT' = [readyT EXCEPT ![t] = 0]
      /\ forwards' = [forwards EXCEPT ![t] = 0]
      /\ lastProbe' = [lastProbe EXCEPT ![t] = NoErr]
      /\ failures' = [failures EXCEPT ![t] = 0]
      /\ sticky' = [sticky EXCEPT ![t] = FALSE]
      /\ started' = [started EXCEPT ![t] = "none"]
      /\ probingT' = [probingT EXCEPT ![t] = 0]
      /\ UNCHANGED direct

\* Receive, with no memory of the instance a 503 was answered for.
Deliver(t) == Receive(t) /\ UNCHANGED warmed

\* The tasks that run in Spec: requests are handled one after the other.
Serial == {"t1"}

Next ==
  \E t \in Serial :
    \/ FetchAny(t)
    \/ FetchSticky(t)
    \/ \E d \in StartDurations : StartReturns(t, d)
    \/ \E e \in StartErrors, d \in StartDurations : StartThrows(t, e, d)
    \/ \E st \in ProbeStatuses, d \in ProbeDurations : ProbeAnswers(t, st, d)
    \/ \E e \in ProbeErrors, d \in ProbeDurations : ProbeThrows(t, e, d)
    \/ SleepReturns(t)
    \/ \E r \in BackendResponses, d \in ForwardDurations : ForwardAnswers(t, r, d)
    \/ \E e \in ForwardErrors, d \in ForwardDurations : ForwardThrows(t, e, d)
    \/ Deliver(t)

Spec == Init /\ [][Next]_vars

(***************************************************************************)
(* One client that sends no cookie but the one it was given, under a       *)
(* runtime in which the clock advances and every awaited call (start,      *)
(* probe, timer, forward) completes or fails.  The client remembers the    *)
(* instance its last request was answered 503 for.                         *)
(***************************************************************************)

\* Values of env.INSTANCE_COUNT in SpecLive.
LiveCounts == {Undefined, Str(<<"2">>)}

\* A request without a Cookie header.
FetchFresh(t) ==
  \E instanceCount \in LiveCounts :
    \E draw \in Draws(instanceCount) : Fetch(t, Undefined, instanceCount, draw, FALSE)

\* A request with the stored cookie pair as its Cookie header.
FetchKept(t) ==
  /\ jar # <<>>
  /\ \E instanceCount \in LiveCounts :
       \E draw \in Draws(instanceCount) : Fetch(t, Str(jar), instanceCount, draw, TRUE)

\* The call the task awaits completes or fails and the task runs to its next
\* await or to the end of fetch.
Resumes(t) ==
  \/ \E d \in StartDurations : StartReturns(t, d)
  \/ \E e \in StartErrors, d \in StartDurations : StartThrows(t, e, d)
  \/ \E st \in ProbeStatuses, d \in ProbeDurations : ProbeAnswers(t, st, d)
  \/ \E e \in ProbeErrors, d \in ProbeDurations : ProbeThrows(t, e, d)
  \/ SleepReturns(t)
  \/ \E r \in BackendResponses, d \in ForwardDurations : ForwardAnswers(t, r, d)
  \/ \E e \in ForwardErrors, d \in ForwardDurations : ForwardThrows(t, e, d)

\* fetch answered 503 from its catch block.
WarmingUpAnswer(t) ==
  /\ pc[t] = "done"
  /\ prober[t] \in {"TimedOut", "StartFailed"}

\* Receive; the client notes the instance when a request without the cookie
\* was answered 503.
DeliverWarm(t) ==
  /\ Receive(t)
  /\ warmed' = IF WarmingUpAnswer(t) /\ setCookie[t].set THEN name[t] ELSE <<>>

NextLive ==
  \E t \in Serial :
    \/ FetchFresh(t)
    \/ FetchKept(t)
    \/ Resumes(t)
    \/ DeliverWarm(t)

Fairness == \A t \in Serial : WF_vars(Resumes(t))

SpecLive == Init /\ [][NextLive]_vars /\ Fairness

(***************************************************************************)
(* Two requests in flight at once, each without a cookie, under a count of *)
(* 2: they are routed to the same instance or to different ones.  The      *)
(* tasks interleave at their awaits.  The instance answers a status < 500  *)
(* to the probe numbered MaxConcProbes of a check at the latest.           *)
(***************************************************************************)

MaxConcProbes == 3

ConcStatuses == {200, 500}

FetchConc(t) ==
  \E draw \in Draws(Str(<<"2">>)) : Fetch(t, Undefined, Str(<<"2">>), draw, FALSE)

ResumesConc(t) ==
  \/ \E d \in StartDurations : StartReturns(t, d)
  \/ \E e \in StartErrors : StartThrows(t, e, 0)
  \/ \E st \in ConcStatuses :
       /\ probes[t] < MaxConcProbes \/ Listening(st)
       /\ ProbeAnswers(t, st, 0)
  \/ \E e \in ProbeErrors :
       /\ probes[t] < MaxConcProbes
       /\ ProbeThrows(t, e, 0)
  \/ SleepReturns(t)
  \/ \E r \in BackendResponses : ForwardAnswers(t, r, 0)
  \/ \E e \in ForwardErrors : ForwardThrows(t, e, 0)

NextConc == \E t \in Tasks : FetchConc(t) \/ ResumesConc(t)

SpecConc == Init /\ [][NextConc]_vars

(***************************************************************************)
(* parseCookie and the shard selection of fetch (lines 97-98) called on    *)
(* their own, on every header of CookieHeaders and setting of              *)
(* InstanceCounts.                                                         *)
(***************************************************************************)

InitCodec ==
  /\ TaskInit
  /\ call \in [fn : {"parseCookie", "select"}, header : CookieHeaders,
               instanceCount : InstanceCounts]
  /\ ret = NoRet

CallParse ==
  LET p == parseCookie(call.header)
  IN  /\ call.fn = "parseCookie"
      /\ ~ret.done
      /\ ret' = [NoRet EXCEPT !.done = TRUE, !.ok = p.ok, !.out = p.out]
      /\ UNCHANGED <<now, pc, locals, history, client, call>>

CallSelect ==
  \E draw \in Draws(call.instanceCount) :
    LET c == chooseStickyName(call.header, ConfiguredCount(call.instanceCount), draw)
    IN  /\ call.fn = "select"
        /\ ~ret.done
        /\ ret' = [NoRet EXCEPT !.done = TRUE, !.ok = c.ok, !.name = c.name,
                                !.setCookie = c.setCookie, !.draw = draw]
        /\ UNCHANGED <<now, pc, locals, history, client, call>>

NextCodec == CallParse \/ CallSelect

SpecCodec == InitCodec /\ [][NextCodec]_vars

(***************************************************************************)
(* Properties.                                                             *)
(***************************************************************************)

\* The value of a cookie pair named key.
CookieValue(pair) == SliceFrom(pair, Len(key) + 2)

\* The cookie mapping of the header holds a non-empty stickiness cookie.
Presented(header) ==
  LET c == parseCookie(header) IN c.ok /\ ~Falsy(Lookup(c.out, key))

\* The cookie mapping of the header holds no stickiness cookie, or an empty one.
NotPresented(header) ==
  LET c == parseCookie(header) IN c.ok /\ Falsy(Lookup(c.out, key))

IsStickyCookie(h) == h[1] = "set-cookie" /\ Before(CookiePair(h[2]), "=") = key

StickyCount(hs) == Cardinality({i \in 1..Len(hs) : IsStickyCookie(hs[i])})

C2_AtMostOneCookie ==
  \A t \in Tasks :
    pc[t] = "done" =>
      LET out   == result[t].response
          added == StickyCount(out.headers) - StickyCount(resp[t].headers)
      IN  /\ added \in {0, 1}
          /\ added = 1 => setCookie[t].set
          /\ StickyCount(out.headers) <= 1
          /\ Presented(request[t]) =>
               /\ added = 0
               /\ prober[t] = "Ready" => out = resp[t]

\* A request that presented the cookie has been answered the instance's 404.
C2_Witness ==
  \E t \in Tasks :
    /\ pc[t] = "done" /\ prober[t] = "Ready" /\ Presented(request[t])
    /\ resp[t].status = 404 /\ result[t].response.status = 404
    /\ StickyCount(result[t].response.headers) = 0

\* C3: a readiness check that ended TimedOut is answered with status 503,
\* Cache-Control: no-store, X-Container-State: starting and a body that
\* begins "Service warming up: ", without the request having been forwarded;
\* and a request is forwarded only once its readiness check has succeeded.
C3_TimeoutAnswer ==
  \A t \in Tasks :
    /\ prober[t] = "TimedOut" =>
         /\ pc[t] = "done" /\ ~result[t].thrown
         /\ result[t].response.status = 503
         /\ \E i \in 1..Len(result[t].response.headers) :
              result[t].response.headers[i]
                = <<"cache-control", <<"n", "o", "-", "s", "t", "o", "r", "e">> >>
         /\ \E i \in 1..Len(result[t].response.headers) :
              result[t].response.headers[i]
                = <<"x-container-state", <<"s", "t", "a", "r", "t", "i", "n", "g">> >>
         /\ Head(result[t].response.body) = "Service warming up: "
         /\ forwards[t] = 0
    /\ (forwards[t] > 0 \/ pc[t] = "forward") =>
         prober[t] = "Ready" /\ forwards[t] = 1

\* A readiness check has timed out after probing and was answered.
C3_Witness ==
  \E t \in Tasks :
    /\ prober[t] = "TimedOut" /\ pc[t] = "done" /\ probes[t] > 1
    /\ result[t].response.status = 503

\* C4: when the instance was ready and answered the forward, the response of
\* the dispatcher has the status, the body and the headers of that answer,
\* with nothing changed but one Set-Cookie header appended when the shard was
\* newly assigned.
C4_ResponsePreserved ==
  \A t \in Tasks :
    (pc[t] = "done" /\ prober[t] = "Ready") =>
      LET out == result[t].response
      IN  /\ ~result[t].thrown
          /\ out.status = resp[t].status
          /\ out.body = resp[t].body
          /\ IF setCookie[t].set
             THEN /\ out.headers = Append(resp[t].headers, <<"set-cookie", setCookie[t].val>>)
                  /\ \E i \in 1..10 :
                       setCookie[t].val = key \o <<"=", Digits[i]>> \o CookieAttrs
             ELSE out.headers = resp[t].headers

\* A newly assigned request got the instance's answer, which set a cookie of
\* its own, with the stickiness cookie appended.
C4_Witness ==
  \E t \in Tasks :
    /\ pc[t] = "done" /\ prober[t] = "Ready" /\ setCookie[t].set
    /\ resp[t].status = 404
    /\ Len(result[t].response.headers) = 3
    /\ StickyCount(result[t].response.headers) = 1

NonPositive(x) == x.nan \/ x.neg \/ x.mag = <<>>

\* i < max(1, x) for a small index i and a count x.
BelowCount(i, x) ==
  IF NonPositive(x) THEN i < 1
  ELSE Len(x.mag) > 9 \/ i < ToInt32(x)

\* C6: on a request without a stickiness cookie, every count <= 0, absent
\* or not numeric gives client-0 with a new cookie and no error, and the
\* drawn index always lies in [0, max(1, count)).
C6_CountCoercedToOne ==
  (ret.done /\ call.fn = "select" /\ NotPresented(call.header)) =>
    LET count == ConfiguredCount(call.instanceCount)
    IN  /\ ret.ok
        /\ ret.setCookie.set
        /\ ret.name = ClientPrefix \o StringOfNat(ret.draw)
        /\ BelowCount(ret.draw, count)
        /\ NonPositive(count) => ret.name = ClientPrefix \o <<"0">>

\* The segments of a header that have an "=" after their first character.
WellFormed(segs) == {i \in 1..Len(segs) : IndexOfEq(segs[i]) > 0}

KeyOf(kv) == decodeURIComponent(SubSeq(kv, 1, IndexOfEq(kv)))

ValueOf(kv) == decodeURIComponent(SliceFrom(kv, IndexOfEq(kv) + 2))

\* C7: parseCookie raises on no header; the mapping holds the decoded key
\* and value of the segments with an "=" after their first character (the
\* last one of a key) and nothing of the others.
C7_ParseNeverRaises ==
  (ret.done /\ call.fn = "parseCookie") =>
    LET segs == IF call.header.set /\ call.header.val # <<>>
                THEN SplitCookie(call.header.val) ELSE <<>>
        good == WellFormed(segs)
    IN  /\ ret.ok
        /\ DOMAIN ret.out = {KeyOf(segs[i]).str : i \in good}
        /\ \A i \in good :
             (\A j \in good : j > i => KeyOf(segs[j]) # KeyOf(segs[i])) =>
               ret.out[KeyOf(segs[i]).str] = ValueOf(segs[i]).str

\* 300 * 2^(k-1) capped at 5000, for k >= 1.
ClaimedDelay(k) == IF k > 20 THEN 5000 ELSE Min(300 * 2 ^ (k - 1), 5000)

RECURSIVE SumDelays(_)
SumDelays(k) == IF k = 0 THEN 0 ELSE SumDelays(k - 1) + ClaimedDelay(k)

\* C8: a probe answered with a status < 500 ends the readiness check in
\* Ready at once, with no wait and no further probe; a status >= 500 or a
\* thrown error is kept as the last error and ends nothing: the wait
\* follows, and after it the deadline decides between the next probe and
\* TimedOut.
C8_ProbeClassified ==
  [][\A t \in Tasks :
       /\ (pc[t] = "probe" /\ pc'[t] # "probe") =>
            IF lastProbe'[t].kind = "status" /\ lastProbe'[t].status < 500
            THEN /\ prober'[t] = "Ready" /\ pc'[t] = "forward"
                 /\ readyT'[t] = now'
                 /\ slept'[t] = slept[t] /\ probes'[t] = probes[t]
            ELSE /\ pc'[t] = "sleep" /\ prober'[t] = "Probing"
                 /\ lastErr'[t] = lastProbe'[t]
                 /\ result'[t] = NoResult
                 /\ wakeAt'[t] = now' + wait[t]
       /\ (prober[t] = "Ready" /\ prober'[t] # "Idle") =>
            /\ prober'[t] = "Ready"
            /\ probes'[t] = probes[t] /\ slept'[t] = slept[t]
       /\ (pc[t] = "sleep" /\ pc'[t] # "sleep") =>
            /\ slept'[t] = Append(slept[t], wait[t])
            /\ now' >= wakeAt[t]
            /\ pc'[t] = "probe" <=> now' - startT[t] < 180000
            /\ pc'[t] # "probe" => prober'[t] = "TimedOut" /\ pc'[t] = "done"]_vars

\* The check ended Ready on a 499 after a failed probe and its wait.
C8_Witness ==
  \E t \in Tasks :
    /\ prober[t] = "Ready" /\ lastProbe[t] = StatusErr(499)
    /\ failures[t] = 1 /\ Len(slept[t]) = 1

\* C9: the wait after the k-th failed probe is min(300 * 2^(k-1), 5000) ms,
\* and the k-th probe is issued after k-1 waits.
C9_Backoff ==
  \A t \in Tasks :
    /\ \A i \in 1..Len(slept[t]) : slept[t][i] = ClaimedDelay(i)
    /\ pc[t] = "sleep" =>
         /\ wait[t] = ClaimedDelay(failures[t])
         /\ Len(slept[t]) = failures[t] - 1
    /\ pc[t] = "probe" => probes[t] = Len(slept[t]) + 1
    /\ probes[t] <= Len(slept[t]) + 1

\* Seven waits are over: the fifth of 4800 ms, the sixth and seventh of 5000.
C9_Witness ==
  \E t \in Tasks :
    /\ Len(slept[t]) = 7
    /\ slept[t][1] = 300 /\ slept[t][5] = 4800
    /\ slept[t][6] = 5000 /\ slept[t][7] = 5000

\* C10: when the k-th probe is the first answered with a status < 500, the
\* readiness check succeeds with exactly k probes issued and at least the sum
\* of the first k-1 delays elapsed (3 probes and 900 ms for k = 3).
C10_ReadyOnKthProbe ==
  \A t \in Tasks :
    /\ (lastProbe[t].kind = "status" /\ lastProbe[t].status < 500) => prober[t] = "Ready"
    /\ prober[t] = "Ready" =>
         /\ probes[t] = failures[t] + 1
         /\ Len(slept[t]) = failures[t]
         /\ readyT[t] - startT[t] >= SumDelays(failures[t])
         /\ failures[t] = 2 => (probes[t] = 3 /\ readyT[t] - startT[t] >= 300 + 600)

\* The third probe was the first to be answered 200, 900 ms after the start.
C10_Witness ==
  \E t \in Tasks :
    /\ prober[t] = "Ready" /\ failures[t] = 2 /\ probes[t] = 3
    /\ lastProbe[t] = StatusErr(200)
    /\ readyT[t] - startT[t] = 900

\* The body of the 503 is that of the Error thrown after the loop.
TimeoutReported(t) ==
  /\ ~result[t].thrown
  /\ Len(result[t].response.body) >= 3
  /\ result[t].response.body[2] = "Error: "
  /\ result[t].response.body[3] = "Container not ready within "

C12_StartFailureNotFatal ==
  [][\A t \in Tasks :
       /\ (pc[t] = "start" /\ started'[t] = "threw" /\ now' - startT[t] < 180000) =>
            /\ pc'[t] = "probe"
            /\ prober'[t] = "Probing"
            /\ probes'[t] = 1
       /\ (pc'[t] = "done" /\ prober'[t] # "Ready") => prober'[t] = "TimedOut"]_vars

\* C12: a start signal that fails ends the readiness check at once: no probe
\* is issued and no wait made, nothing is forwarded, and fetch answers 503
\* with the error of the start signal in its body.  fetch answers 503
\* after a failed start signal or after the timeout of a check whose start
\* signal succeeded, and in no other case.
C12_StartFailureFatal ==
  \A t \in Tasks :
    /\ started[t] = "threw" =>
         /\ pc[t] = "done" /\ prober[t] = "StartFailed"
         /\ starts[t] = 1 /\ probes[t] = 0 /\ slept[t] = <<>> /\ forwards[t] = 0
         /\ \E e \in StartErrors :
              result[t] = Returned(WarmingUp(<<"Error: ", e>>))
    /\ (pc[t] = "done" /\ prober[t] # "Ready") =>
         \/ prober[t] = "TimedOut" /\ started[t] = "returned"
         \/ prober[t] = "StartFailed" /\ started[t] = "threw"

\* The start signal failed at once, long before the deadline, and the
\* request was answered 503.
C12_Witness ==
  \E t \in Tasks :
    /\ started[t] = "threw" /\ now = startT[t]
    /\ pc[t] = "done" /\ result[t].response.status = 503

\* The step evaluates the while condition: the start signal has returned or
\* a wait is over.
AtLoopTop(t) ==
  \/ pc[t] = "start" /\ started'[t] = "returned"
  \/ pc[t] = "sleep" /\ pc'[t] # "sleep"

\* C13 as stated: the deadline runs from the moment the start signal has
\* completed, so the next probe is issued exactly when less than timeoutMs
\* have passed since then, and a check that ends TimedOut has issued at
\* least one probe.
C13_DeadlineFromProbing ==
  [][\A t \in Tasks :
       /\ AtLoopTop(t) => (pc'[t] = "probe" <=> now' - probingT'[t] < 180000)
       /\ prober'[t] = "TimedOut" => probes'[t] >= 1]_vars

\* C13: the deadline runs from the call of ensureContainerReady, taken
\* before the start signal is issued and never taken again: the next probe
\* is issued exactly when less than timeoutMs have passed since the call,
\* the time awaiting the start signal included.
C13_DeadlineFromCall ==
  [][\A t \in Tasks :
       /\ (pc[t] = "idle" /\ pc'[t] = "start") =>
            startT'[t] = now' /\ starts'[t] = 1 /\ probes'[t] = 0
       /\ (pc[t] \notin {"idle", "done", "failed"}) => startT'[t] = startT[t]
       /\ (pc[t] = "start" /\ started'[t] = "returned") =>
            probingT'[t] = now' /\ probingT'[t] >= startT[t]
       /\ AtLoopTop(t) =>
            /\ pc'[t] = "probe" <=> now' - startT[t] < 180000
            /\ pc'[t] # "probe" => prober'[t] = "TimedOut"]_vars

\* The start signal returned after the whole budget: the check ended
\* TimedOut without a probe.
C13_Witness ==
  \E t \in Tasks :
    /\ started[t] = "returned" /\ prober[t] = "TimedOut"
    /\ probingT[t] - startT[t] >= 180000
    /\ probes[t] = 0

\* C14: a probe in flight is never ended by the deadline.  When it
\* completes with timeoutMs or more elapsed, its outcome counts as at any
\* other time: a status < 500 ends the check Ready and the request is
\* forwarded and answered by the instance, a failure is followed by the
\* wait, and only the loop condition after the wait ends the check
\* TimedOut.
C14_ProbeOutlivesDeadline ==
  [][\A t \in Tasks :
       /\ pc[t] = "probe" => (prober'[t] # "TimedOut" /\ pc'[t] # "done")
       /\ (pc[t] = "probe" /\ pc'[t] # "probe" /\ now' - startT[t] >= 180000) =>
            IF lastProbe'[t].kind = "status" /\ lastProbe'[t].status < 500
            THEN /\ prober'[t] = "Ready" /\ pc'[t] = "forward"
                 /\ forwards'[t] = 1 /\ readyT'[t] = now'
            ELSE /\ prober'[t] = "Probing" /\ pc'[t] = "sleep"
       /\ (pc[t] = "forward" /\ readyT[t] - startT[t] >= 180000 /\ pc'[t] = "done") =>
            /\ resp'[t] \in BackendResponses
            /\ result'[t] = Returned(Proxied(resp'[t], setCookie[t]))]_vars

\* A probe answered 200 after the deadline, following a failed probe: the
\* request was forwarded and answered 200 by the instance.
C14_Witness ==
  \E t \in Tasks :
    /\ prober[t] = "Ready" /\ pc[t] = "done"
    /\ readyT[t] - startT[t] >= 180000
    /\ failures[t] >= 1 /\ lastProbe[t] = StatusErr(200)
    /\ forwards[t] = 1 /\ result[t].response.status = 200

\* C15: a request is forwarded when and only when its readiness check ended
\* Ready, and once.  The forward ends fetch: answered, fetch returns the
\* instance's answer; failed, fetch fails with no response of its own (no
\* 503), and in both cases no probe, wait, start signal or second forward
\* follows.
C15_ForwardedOnce ==
  [][\A t \in Tasks :
       /\ forwards'[t] = (IF prober'[t] = "Ready" THEN 1 ELSE 0)
       /\ (pc[t] = "forward" /\ pc'[t] # "forward") =>
            /\ pc'[t] \in {"done", "failed"}
            /\ prober'[t] = "Ready"
            /\ forwards'[t] = forwards[t] /\ probes'[t] = probes[t]
            /\ starts'[t] = starts[t] /\ slept'[t] = slept[t]
            /\ pc'[t] = "failed" => result'[t] = Thrown
            /\ pc'[t] = "done" =>
                 /\ resp'[t] \in BackendResponses
                 /\ ~result'[t].thrown
                 /\ result'[t].response.status = resp'[t].status
       /\ (pc[t] \in {"done", "failed"} /\ prober[t] = "Ready") =>
            (pc'[t] = "idle" \/ pc'[t] = pc[t])]_vars

\* The forward failed after a readiness check of three probes: fetch failed.
C15_Witness ==
  \E t \in Tasks :
    /\ pc[t] = "failed" /\ prober[t] = "Ready"
    /\ probes[t] = 3 /\ forwards[t] = 1 /\ starts[t] = 1
    /\ result[t] = Thrown

\* The state of the readiness check of task t.
ProberState(t) ==
  <<startT[t], wait[t], lastErr[t], wakeAt[t], prober[t], starts[t], probes[t],
    slept[t], lastProbe[t], failures[t], started[t], probingT[t]>>

\* What else task t holds.
RequestState(t) ==
  <<request[t], name[t], setCookie[t], resp[t], result[t], readyT[t], forwards[t]>>

\* C16: requests in flight together share no prober state.  A step of one
\* request changes nothing of another; each request issues a start signal
\* of its own, whatever other requests are in flight for the same
\* instance; and the delay, the probe count, the deadline and the last
\* error of a check are those its own probes' outcomes give.
C16_NoSharedProberState ==
  [][\A t \in Tasks :
       /\ pc'[t] = pc[t] =>
            ProberState(t)' = ProberState(t) /\ RequestState(t)' = RequestState(t)
       /\ (pc[t] = "idle" /\ pc'[t] = "start") =>
            starts'[t] = 1 /\ probes'[t] = 0 /\ startT'[t] = now'
       /\ (pc[t] = "start" /\ pc'[t] = "probe") => probes'[t] = 1 /\ wait'[t] = 300
       /\ pc'[t] \in {"probe", "sleep"} =>
            /\ starts'[t] = 1
            /\ probes'[t] = failures'[t] + (IF pc'[t] = "probe" THEN 1 ELSE 0)
            /\ wait'[t] = ClaimedDelay(probes'[t])
            /\ lastErr'[t] = lastProbe'[t]
       /\ AtLoopTop(t) => (pc'[t] = "probe" <=> now' - startT[t] < 180000)]_vars

\* Two requests for the same instance are in flight, each with a start
\* signal of its own; one waits 300 ms after its first probe was answered
\* 500, the other 600 ms after its second probe threw.
C16_Witness ==
  /\ name["t1"] = name["t2"]
  /\ starts["t1"] = 1 /\ starts["t2"] = 1
  /\ pc["t1"] = "sleep" /\ pc["t2"] = "sleep"
  /\ wait["t1"] = 300 /\ wait["t2"] = 600
  /\ probes["t1"] = 1 /\ probes["t2"] = 2
  /\ lastErr["t1"] = StatusErr(500) /\ lastErr["t2"].kind = "error"

\* C17 as stated: the error of a check that ended TimedOut carries the time
\* the check took and the outcome of the most recent failed probe.
C17_ErrorCarriesElapsed ==
  \A t \in Tasks :
    prober[t] = "TimedOut" =>
      result[t] = Returned(WarmingUp(TimeoutText(now - startT[t], lastProbe[t])))

\* C17: the error of a check that ended TimedOut carries timeoutMs, the
\* budget of the call, whatever time the check took, and after it the
\* outcome of the most recent failed probe, when a probe has failed.
C17_ErrorCarriesTimeout ==
  \A t \in Tasks :
    /\ prober[t] = "TimedOut" =>
         /\ result[t] = Returned(WarmingUp(TimeoutText(180000, lastProbe[t])))
         /\ failures[t] = probes[t]
         /\ Len(result[t].response.body) = (IF failures[t] = 0 THEN 5 ELSE 8)
         /\ result[t].response.body[4] = "180000"
    /\ pc[t] = "sleep" => (lastErr[t] = lastProbe[t] /\ lastErr[t] # NoErr)
    /\ failures[t] = 0 => lastProbe[t].kind # "error"

\* The check took 181100 ms or more and its last probe was answered 500:
\* the error names 180000 ms and status 500.
C17_Witness ==
  \E t \in Tasks :
    /\ prober[t] = "TimedOut" /\ now - startT[t] >= 181100
    /\ failures[t] >= 2 /\ lastProbe[t] = StatusErr(500)
    /\ result[t].response.body
         = <<"Service warming up: ", "Error: ", "Container not ready within ", "180000",
             "ms", ", last error: ", "status ", "500">>

\* C18: every request is answered: fetch returns the instance's answer or
\* the 503, or fails with the failure of the forward.  The k-th probe of a
\* check is issued only while the first k-1 delays sum to less than
\* timeoutMs, so that a check issues 40 probes at most.
C18_EveryRequestAnswered ==
  /\ \A t \in Tasks : (pc[t] # "idle") ~> (pc[t] \in {"done", "failed"})
  /\ [](\A t \in Tasks :
          /\ probes[t] >= 1 => SumDelays(probes[t] - 1) < 180000
          /\ probes[t] <= 40
          /\ pc[t] = "done" =>
               /\ ~result[t].thrown
               /\ \/ prober[t] = "Ready" /\ result[t].response.status = resp[t].status
                  \/ WarmingUpAnswer(t) /\ result[t].response.status = 503
          /\ pc[t] = "failed" => (result[t] = Thrown /\ prober[t] = "Ready"))

\* A check that issued all of its 40 probes has been answered.
C18_Witness ==
  \E t \in Tasks :
    /\ probes[t] = 40 /\ pc[t] = "done" /\ prober[t] = "TimedOut"
    /\ result[t].response.status = 503

\* C19: the 503 of the catch block has the two headers of line 109 and no
\* Set-Cookie, also when a shard was newly drawn for the request; the
\* client's cookie store is as it was before the request, and a request
\* without the cookie gets a shard drawn anew.
C19_NoCookieOnWarmingUp ==
  [][\A t \in Tasks :
       /\ WarmingUpAnswer(t)' =>
            /\ result'[t].response.status = 503
            /\ result'[t].response.headers = WarmingUp(<<>>).headers
            /\ StickyCount(result'[t].response.headers) = 0
       /\ (WarmingUpAnswer(t) /\ pc'[t] = "idle") =>
            /\ jar' = jar /\ assigned' = assigned
            /\ warmed' = (IF setCookie[t].set THEN name[t] ELSE <<>>)
       /\ (pc[t] = "idle" /\ pc'[t] = "start" /\ ~request'[t].set) =>
            /\ setCookie'[t].set
            /\ \E i \in 1..2 : name'[t] = ClientPrefix \o <<Digits[i]>>]_vars

\* A client without a cookie was answered 503; its next
\* request, again without a cookie, is routed to another instance.
C19_Witness ==
  \E t \in Tasks :
    /\ warmed # <<>> /\ jar = <<>>
    /\ pc[t] = "start" /\ ~request[t].set /\ setCookie[t].set
    /\ name[t] # warmed

\* C20: a readiness check issues one start signal, at its call, and no
\* probe before that signal has returned.  A probe is issued only with less
\* than timeoutMs elapsed since the call; a wait that ends with timeoutMs
\* or more elapsed is followed by the timeout failure and no probe.
C20_OneStartThenProbes ==
  [][\A t \in Tasks :
       /\ starts'[t] = (IF prober'[t] = "Idle" THEN 0 ELSE 1)
       /\ pc'[t] = "start" => probes'[t] = 0
       /\ probes'[t] >= 1 => (started'[t] = "returned" /\ pc'[t] # "start")
       /\ probes'[t] # probes[t] =>
            \/ pc'[t] = "idle" /\ probes'[t] = 0
            \/ /\ probes'[t] = probes[t] + 1
               /\ pc'[t] = "probe"
               /\ now' - startT[t] < 180000
       /\ (pc[t] = "sleep" /\ pc'[t] # "sleep" /\ now' - startT[t] >= 180000) =>
            /\ probes'[t] = probes[t]
            /\ prober'[t] = "TimedOut" /\ pc'[t] = "done"]_vars

\* The last wait began before the deadline and ended after it: the check
\* ended TimedOut with the 40 probes it had issued.
C20_Witness ==
  \E t \in Tasks :
    /\ prober[t] = "TimedOut" /\ probes[t] = 40 /\ starts[t] = 1
    /\ Len(slept[t]) = 40
    /\ wakeAt[t] - slept[t][40] - startT[t] < 180000
    /\ wakeAt[t] - startT[t] > 180000

====
